---- MODULE Spec2Model ----
(***************************************************************************)
(* Model of Summly: text extraction (file_reader.py), summary generation   *)
(* and filename cleaning (processor.py) and the batch worker (window.py).  *)
(*                                                                         *)
(* Strings are sequences of Unicode code points, so that startswith,       *)
(* strip, split and the regular expressions of the source are computed     *)
(* character by character.                                                 *)
(***************************************************************************)
EXTENDS Integers, Sequences, FiniteSets, TLC

VARIABLES
    cf,     \* clean_filename harness: [text, prev, calls]
    rd,     \* read_file harness
    tx,     \* _read_txt harness
    gs,     \* generate_summary harness
    w       \* batch worker (FileProcessingThread.run)

vars == <<cf, rd, tx, gs, w>>

Idle == [pc |-> "idle"]

(***************************************************************************)
(* Python str helpers                                                      *)
(***************************************************************************)

\* str.isspace() / regex \s (identical sets in CPython)
WhitespaceChars ==
    (9..13) \cup (28..32) \cup {133, 160, 5760} \cup (8192..8202)
        \cup {8232, 8233, 8239, 8287, 12288}

IsSpace(c) == c \in WhitespaceChars

RECURSIVE LStrip(_)
LStrip(s) == IF s # <<>> /\ IsSpace(Head(s)) THEN LStrip(Tail(s)) ELSE s

RECURSIVE RStrip(_)
RStrip(s) ==
    IF s # <<>> /\ IsSpace(s[Len(s)]) THEN RStrip(SubSeq(s, 1, Len(s) - 1)) ELSE s

\* str.strip()
Strip(s) == RStrip(LStrip(s))

\* str.startswith(p)
StartsWith(s, p) == Len(s) >= Len(p) /\ SubSeq(s, 1, Len(p)) = p

\* p in s (substring test)
Contains(s, p) ==
    \E i \in 0..(Len(s) - Len(p)) : SubSeq(s, i + 1, i + Len(p)) = p

\* len(s.split()): the number of maximal runs of non-whitespace characters
WordCount(s) ==
    Cardinality({i \in 1..Len(s) :
        ~IsSpace(s[i]) /\ (i = 1 \/ IsSpace(s[i - 1]))})

\* n copies of the character c
Fill(c, n) == [i \in 1..n |-> c]

\* all sequences over S of length at most n
RECURSIVE SeqsUpTo(_, _)
SeqsUpTo(S, n) ==
    IF n = 0 THEN {<<>>}
    ELSE LET shorter == SeqsUpTo(S, n - 1)
         IN  shorter \cup {Append(s, c) : s \in shorter, c \in S}

(***************************************************************************)
(* TextProcessor.clean_filename                                            *)
(***************************************************************************)

\* the character class of FILENAME_SPECIAL_CHARS:
\*   / : * ? " < > | % # $ @ ! ^ & ( ) [ ] { } ; ` , . ~ + =  and the
\*   CJK marks U+3002 U+FF0C U+FF1F U+FF01 (the backslash only escapes)
FILENAME_SPECIAL_CHARS ==
    {47, 58, 42, 63, 34, 60, 62, 124, 37, 35, 36, 64, 33, 94, 38, 40, 41,
     91, 93, 123, 125, 59, 96, 44, 46, 126, 43, 61,
     12290, 65292, 65311, 65281}

MAX_FILENAME_LENGTH == 200

\* end of a match of <[^>]+> starting at i (0 when there is none): the
\* first '>' after i, which must leave at least one character in between
MatchEnd(s, i) ==
    LET gts == {j \in (i + 1)..Len(s) : s[j] = 62}
    IN  IF s[i] # 60 \/ gts = {} THEN 0
        ELSE LET j == CHOOSE k \in gts : \A m \in gts : k <= m
             IN  IF j >= i + 2 THEN j ELSE 0

\* re.sub(r'<[^>]+>', '', text): leftmost non-overlapping matches removed
RECURSIVE RemoveMarkup(_)
RemoveMarkup(s) ==
    LET starts == {i \in 1..Len(s) : s[i] = 60 /\ MatchEnd(s, i) # 0}
    IN  IF starts = {} THEN s
        ELSE LET i == CHOOSE k \in starts : \A m \in starts : k <= m
             IN  SubSeq(s, 1, i - 1)
                     \o RemoveMarkup(SubSeq(s, MatchEnd(s, i) + 1, Len(s)))

IsSpecial(c) == c \in FILENAME_SPECIAL_CHARS

\* a plausible slip: only the ASCII part of the class is removed
RemoveSpecialCharsAsciiOnly(s) ==
    SelectSeq(s, LAMBDA c : ~(IsSpecial(c) /\ c < 128))

\* special_chars_pattern.sub('', text)
RemoveSpecialChars(s) == SelectSeq(s, LAMBDA c : ~IsSpecial(c))

\* a character of the class [-\s]
IsSpaceOrHyphen(c) == c = 45 \/ IsSpace(c)

\* consecutive_spaces_pattern.sub(' ', text): every maximal run of [-\s]
\* becomes one space
CollapseSpaces(s) ==
    LET marked == [i \in 1..Len(s) |->
                      IF ~IsSpaceOrHyphen(s[i]) THEN s[i]
                      ELSE IF i > 1 /\ IsSpaceOrHyphen(s[i - 1]) THEN -1
                      ELSE 32]
    IN  SelectSeq(marked, LAMBDA c : c # -1)

\* a plausible slip: the cut without the trailing rstrip()
TruncateNoRstrip(s) ==
    IF Len(s) > MAX_FILENAME_LENGTH THEN SubSeq(s, 1, MAX_FILENAME_LENGTH) ELSE s

\* if len(t) > MAX_FILENAME_LENGTH: t = t[:MAX_FILENAME_LENGTH].rstrip()
Truncate(s) ==
    IF Len(s) > MAX_FILENAME_LENGTH
    THEN RStrip(SubSeq(s, 1, MAX_FILENAME_LENGTH))
    ELSE s

clean_filename(text) ==
    Truncate(Strip(CollapseSpaces(RemoveSpecialChars(RemoveMarkup(text)))))

\* ---- inputs of the clean_filename harness ----
MaxLen == 4         \* short inputs: every string up to this length
MaxTail == 3        \* long inputs: a run of letters, then every tail up to this length
MaxGap == 2         \* the run is MAX_FILENAME_LENGTH - MaxGap .. MAX_FILENAME_LENGTH long

\* '<' '>' U+3002 '-' ' ' TAB 'a'
CleanAlphabet == {60, 62, 12290, 45, 32, 9, 97}

CleanInputs ==
    SeqsUpTo(CleanAlphabet, MaxLen)
        \cup {h \o Fill(97, n) \o t :
                h \in {<<>>, <<60>>},
                n \in (MAX_FILENAME_LENGTH - MaxGap)..MAX_FILENAME_LENGTH,
                t \in SeqsUpTo(CleanAlphabet, MaxTail)}

CleanInit ==
    /\ cf \in {[pc |-> "ready", input |-> x, text |-> x, prev |-> x, calls |-> 0] :
                x \in CleanInputs}
    /\ rd = Idle /\ tx = Idle /\ gs = Idle /\ w = Idle

\* text = clean_filename(text), at most twice in a row
CleanFilename ==
    /\ cf.pc = "ready"
    /\ cf.calls < 2
    /\ cf' = [cf EXCEPT !.prev = cf.text,
                        !.text = clean_filename(cf.text),
                        !.calls = cf.calls + 1]
    /\ UNCHANGED <<rd, tx, gs, w>>

CleanNext == CleanFilename

SpecClean == CleanInit /\ [][CleanNext]_vars

\* C4: whatever the input, the result of clean_filename holds no character
\* of FILENAME_SPECIAL_CHARS, no two consecutive whitespace/hyphen
\* characters, at most MAX_FILENAME_LENGTH characters, and neither starts
\* nor ends with whitespace.
CleanOutputSafe ==
    (cf.pc = "ready" /\ cf.calls >= 1) =>
        /\ \A i \in 1..Len(cf.text) : ~IsSpecial(cf.text[i])
        /\ \A i \in 1..(Len(cf.text) - 1) :
               ~(IsSpaceOrHyphen(cf.text[i]) /\ IsSpaceOrHyphen(cf.text[i + 1]))
        /\ Len(cf.text) <= MAX_FILENAME_LENGTH
        /\ (cf.text # <<>> =>
               ~IsSpace(cf.text[1]) /\ ~IsSpace(cf.text[Len(cf.text)]))

\* a cleaned input that held a forbidden CJK mark, markup, a hyphen run and
\* was cut at MAX_FILENAME_LENGTH
CleanOutputSafeWitness ==
    /\ cf.pc = "ready" /\ cf.calls = 1
    /\ Len(cf.input) > MAX_FILENAME_LENGTH
    /\ Len(cf.text) = MAX_FILENAME_LENGTH
    /\ \E i \in 1..Len(cf.input) : cf.input[i] = 12290
    /\ \E i \in 1..Len(cf.input) : cf.input[i] = 45

\* C5: clean_filename is idempotent: cleaning a cleaned text changes nothing.
CleanIdempotent ==
    (cf.pc = "ready" /\ cf.calls = 2) => cf.text = cf.prev

\* the second cleaning of an input whose cut fell on whitespace
CleanIdempotentWitness ==
    /\ cf.pc = "ready" /\ cf.calls = 2
    /\ Len(cf.input) > MAX_FILENAME_LENGTH
    /\ Len(cf.text) < MAX_FILENAME_LENGTH
    /\ Len(CollapseSpaces(RemoveSpecialChars(RemoveMarkup(cf.input))))
           > MAX_FILENAME_LENGTH
    /\ cf.input[1] = 97

(***************************************************************************)
(* Text codecs used by open(..., encoding=E) and bytes.decode               *)
(***************************************************************************)

DecodeError == [ok |-> FALSE, text |-> <<>>]
Decoded(t) == [ok |-> TRUE, text |-> t]

IsCont(b, i) == i <= Len(b) /\ b[i] >= 128 /\ b[i] <= 191

\* strict UTF-8: shortest forms only, no surrogates, at most U+10FFFF
RECURSIVE Utf8Decode(_, _, _)
Utf8Decode(b, i, acc) ==
    IF i > Len(b) THEN Decoded(acc)
    ELSE LET c == b[i] IN
         IF c < 128 THEN Utf8Decode(b, i + 1, Append(acc, c))
         ELSE IF c >= 194 /\ c <= 223 /\ IsCont(b, i + 1)
              THEN Utf8Decode(b, i + 2,
                       Append(acc, (c - 192) * 64 + (b[i + 1] - 128)))
         ELSE IF c >= 224 /\ c <= 239 /\ IsCont(b, i + 1) /\ IsCont(b, i + 2)
                   /\ (c = 224 => b[i + 1] >= 160)
                   /\ (c = 237 => b[i + 1] <= 159)
              THEN Utf8Decode(b, i + 3,
                       Append(acc, (c - 224) * 4096 + (b[i + 1] - 128) * 64
                                       + (b[i + 2] - 128)))
         ELSE IF c >= 240 /\ c <= 244 /\ IsCont(b, i + 1) /\ IsCont(b, i + 2)
                   /\ IsCont(b, i + 3)
                   /\ (c = 240 => b[i + 1] >= 144)
                   /\ (c = 244 => b[i + 1] <= 143)
              THEN Utf8Decode(b, i + 4,
                       Append(acc, (c - 240) * 262144 + (b[i + 1] - 128) * 4096
                                       + (b[i + 2] - 128) * 64 + (b[i + 3] - 128)))
         ELSE DecodeError

\* the GBK code table, restricted to the double-byte codes that files of
\* this model contain (lead byte, trail byte) -> code point
GbkTable ==
    (<<168, 166>> :> 233) @@ (<<214, 208>> :> 20013)
        @@ (<<233, 97>> :> 38285) @@ (<<233, 233>> :> 27546)
        @@ (<<208, 207>> :> 37026) @@ (<<224, 161>> :> 21815)

\* GBK: a byte below 0x80 is itself; a lead byte 0x81..0xFE takes a trail
\* byte 0x40..0xFE (not 0x7F) and the pair must be in the code table
RECURSIVE GbkDecode(_, _, _)
GbkDecode(b, i, acc) ==
    IF i > Len(b) THEN Decoded(acc)
    ELSE LET c == b[i] IN
         IF c < 128 THEN GbkDecode(b, i + 1, Append(acc, c))
         ELSE IF c >= 129 /\ c <= 254 /\ i + 1 <= Len(b)
                   /\ b[i + 1] >= 64 /\ b[i + 1] <= 254 /\ b[i + 1] # 127
                   /\ <<c, b[i + 1]>> \in DOMAIN GbkTable
              THEN GbkDecode(b, i + 2, Append(acc, GbkTable[<<c, b[i + 1]>>]))
         ELSE DecodeError

\* Latin-1: every byte is the code point of the same value
Latin1Decode(b) == Decoded(b)

IsSurrogate(u) == u >= 55296 /\ u <= 57343

\* the 16-bit units of b from byte i on, in the given byte order
Utf16Units(b, i, big) ==
    [k \in 1..((Len(b) - i + 1) \div 2) |->
        IF big THEN b[i + 2 * k - 2] * 256 + b[i + 2 * k - 1]
        ELSE b[i + 2 * k - 2] + b[i + 2 * k - 1] * 256]

\* first payload byte: a byte order mark is consumed
Utf16Start(b) ==
    IF Len(b) >= 2 /\ ((b[1] = 255 /\ b[2] = 254) \/ (b[1] = 254 /\ b[2] = 255))
    THEN 3 ELSE 1

Utf16Big(b) == Len(b) >= 2 /\ b[1] = 254 /\ b[2] = 255

\* 'utf-16', strict: byte order from the mark (little-endian without one);
\* an odd byte or a surrogate unit is an error (the model's files hold no
\* surrogate pairs)
Utf16Decode(b) ==
    LET units == Utf16Units(b, Utf16Start(b), Utf16Big(b))
    IN  IF ((Len(b) - Utf16Start(b) + 1) % 2) = 1
           \/ \E k \in 1..Len(units) : IsSurrogate(units[k])
        THEN DecodeError
        ELSE Decoded(units)

\* 'utf-16' with errors='replace': every undecodable unit becomes U+FFFD
Utf16DecodeReplace(b) ==
    LET units == Utf16Units(b, Utf16Start(b), Utf16Big(b))
        fixed == [k \in 1..Len(units) |->
                     IF IsSurrogate(units[k]) THEN 65533 ELSE units[k]]
    IN  IF ((Len(b) - Utf16Start(b) + 1) % 2) = 1
        THEN Append(fixed, 65533) ELSE fixed

Decode(encoding, b) ==
    CASE encoding = "utf-8" -> Utf8Decode(b, 1, <<>>)
      [] encoding = "gbk" -> GbkDecode(b, 1, <<>>)
      [] encoding = "latin-1" -> Latin1Decode(b)
      [] encoding = "utf-16" -> Utf16Decode(b)

\* ---- encoders: how a text file in encoding E comes to be ----
Utf8EncodeChar(c) ==
    IF c < 128 THEN <<c>>
    ELSE IF c < 2048 THEN <<192 + (c \div 64), 128 + (c % 64)>>
    ELSE IF c < 65536
         THEN <<224 + (c \div 4096), 128 + ((c \div 64) % 64), 128 + (c % 64)>>
    ELSE <<240 + (c \div 262144), 128 + ((c \div 4096) % 64),
           128 + ((c \div 64) % 64), 128 + (c % 64)>>

GbkEncodeChar(c) ==
    IF c < 128 THEN <<c>>
    ELSE LET p == CHOOSE q \in DOMAIN GbkTable : GbkTable[q] = c
         IN  <<p[1], p[2]>>

RECURSIVE Concat(_)
Concat(ss) == IF ss = <<>> THEN <<>> ELSE Head(ss) \o Concat(Tail(ss))

\* can the text be written in the encoding at all
Encodable(encoding, t) ==
    CASE encoding = "latin-1" -> \A i \in 1..Len(t) : t[i] < 256
      [] encoding = "gbk" ->
            \A i \in 1..Len(t) :
                t[i] < 128 \/ \E q \in DOMAIN GbkTable : GbkTable[q] = t[i]
      [] OTHER -> TRUE

\* the bytes of a file written with open(path, 'w', encoding=E); 'utf-16'
\* writes a byte order mark, then little-endian units
Encode(encoding, t) ==
    CASE encoding = "utf-8" -> Concat([i \in 1..Len(t) |-> Utf8EncodeChar(t[i])])
      [] encoding = "gbk" -> Concat([i \in 1..Len(t) |-> GbkEncodeChar(t[i])])
      [] encoding = "latin-1" -> t
      [] encoding = "utf-16" ->
            <<255, 254>> \o Concat([i \in 1..Len(t) |-> <<t[i] % 256, t[i] \div 256>>])

(***************************************************************************)
(* Exceptions: the Python type and the message, a template and the value   *)
(* interpolated into it                                                    *)
(***************************************************************************)

NoError == [type |-> "none", msg |-> <<>>]

Exc(type, lit, arg) == [type |-> type, msg |-> <<[lit |-> lit, arg |-> arg]>>]

(***************************************************************************)
(* FileReader                                                              *)
(***************************************************************************)

ReadOk(text, reader) ==
    [status |-> "ok", text |-> text, reader |-> reader, err |-> NoError,
     used |-> "none"]

ReadRaise(err, reader) ==
    [status |-> "error", text |-> <<>>, reader |-> reader, err |-> err,
     used |-> "none"]

encodings == <<"utf-8", "gbk", "latin-1", "utf-16">>

\* the loop of _read_txt from candidate k on: the first encoding that
\* decodes wins; ValueError after the last one
RECURSIVE TryEncodings(_, _, _)
TryEncodings(file_path, b, k) ==
    IF k > Len(encodings)
    THEN ReadRaise(Exc("ValueError", "cannot decode file: ", file_path), "_read_txt")
    ELSE LET d == Decode(encodings[k], b)
         IN  IF d.ok
             THEN [ReadOk(d.text, "_read_txt") EXCEPT !.used = encodings[k]]
             ELSE TryEncodings(file_path, b, k + 1)

_read_txt(file_path, file) == TryEncodings(file_path, file.bytes, 1)

\* "\n".join(parts)
RECURSIVE JoinLines(_)
JoinLines(parts) ==
    IF parts = <<>> THEN <<>>
    ELSE IF Len(parts) = 1 THEN parts[1]
    ELSE parts[1] \o <<10>> \o JoinLines(Tail(parts))

\* Document(file_path) raises on anything that is not a docx package
_read_docx(file_path, file) ==
    IF file.fmt # "docx"
    THEN ReadRaise(Exc("PackageNotFoundError", "Package not found at ", file_path),
                   "_read_docx")
    ELSE ReadOk(JoinLines(file.paragraphs), "_read_docx")

\* re.sub(r'\s+', ' ', text)
CollapseWhitespace(s) ==
    LET marked == [i \in 1..Len(s) |->
                      IF ~IsSpace(s[i]) THEN s[i]
                      ELSE IF i > 1 /\ IsSpace(s[i - 1]) THEN -1
                      ELSE 32]
    IN  SelectSeq(marked, LAMBDA c : c # -1)

\* OleFileIO raises on a file that is no compound document; a compound
\* document without the WordDocument stream is a ValueError; otherwise the
\* stream is decoded (errors are replaced, so the latin-1 branch is dead),
\* NULs are removed, whitespace is collapsed and the text is stripped
_read_doc(file_path, file) ==
    IF file.fmt # "ole"
    THEN ReadRaise(Exc("OSError", "not an OLE2 structured storage file", <<>>),
                   "_read_doc")
    ELSE IF ~file.has_word
    THEN ReadRaise(Exc("ValueError", "file is not a valid Word document", <<>>),
                   "_read_doc")
    ELSE ReadOk(Strip(CollapseWhitespace(
                    SelectSeq(Utf16DecodeReplace(file.stream), LAMBDA c : c # 0))),
                "_read_doc")

\* the largest index of '.' in name, 0 when there is none
LastDot(name) ==
    LET dots == {i \in 1..Len(name) : name[i] = 46}
    IN  IF dots = {} THEN 0 ELSE CHOOSE i \in dots : \A j \in dots : j <= i

\* pathlib's PurePath.suffix of a name without directory part: from the
\* last dot on, unless that dot starts or ends the name
Suffix(name) ==
    LET i == LastDot(name)
    IN  IF i > 1 /\ i < Len(name) THEN SubSeq(name, i, Len(name)) ELSE <<>>

\* str.lower() on the ASCII letters
Lower(s) == [i \in 1..Len(s) |-> IF s[i] >= 65 /\ s[i] <= 90 THEN s[i] + 32 ELSE s[i]]

DotTxt == <<46, 116, 120, 116>>
DotDocx == <<46, 100, 111, 99, 120>>
DotDoc == <<46, 100, 111, 99>>

\* a plausible slip: the suffix is compared as written
DispatchSuffixCaseSensitive(file_path) == Suffix(file_path)

\* suffix = Path(file_path).suffix.lower()
DispatchSuffix(file_path) == Lower(Suffix(file_path))

\* fs maps every path to its file, or to NoFile
NoFile == [fmt |-> "absent"]

read_file(file_path, file) ==
    IF file = NoFile
    THEN ReadRaise(Exc("FileNotFoundError", "file does not exist: ", file_path),
                   "none")
    ELSE LET suffix == DispatchSuffix(file_path) IN
         CASE suffix = DotTxt -> _read_txt(file_path, file)
           [] suffix = DotDocx -> _read_docx(file_path, file)
           [] suffix = DotDoc -> _read_doc(file_path, file)
           [] OTHER ->
                ReadRaise(Exc("ValueError", "unsupported file type: ", suffix), "none")

(***************************************************************************)
(* Harness of _read_txt: a text is written in one of the candidate         *)
(* encodings, then read back                                               *)
(***************************************************************************)

MaxContentLen == 3

\* 'a', U+00E9, U+4E2D
TxtAlphabet == {97, 233, 20013}

TxtPath == <<97>> \o DotTxt

RawFile(b) ==
    [fmt |-> "raw", bytes |-> b, paragraphs |-> <<>>, has_word |-> FALSE,
     stream |-> <<>>]

TxtInit ==
    /\ tx \in {[pc |-> "start", content |-> c, encoding |-> "none",
                bytes |-> <<>>, res |-> ReadOk(<<>>, "none")] :
                  c \in SeqsUpTo(TxtAlphabet, MaxContentLen)}
    /\ cf = Idle /\ rd = Idle /\ gs = Idle /\ w = Idle

\* open(path, 'w', encoding=E).write(content)
WriteTxt ==
    /\ tx.pc = "start"
    /\ \E k \in 1..Len(encodings) :
          /\ Encodable(encodings[k], tx.content)
          /\ tx' = [tx EXCEPT !.pc = "written",
                              !.encoding = encodings[k],
                              !.bytes = Encode(encodings[k], tx.content)]
    /\ UNCHANGED <<cf, rd, gs, w>>

ReadTxt ==
    /\ tx.pc = "written"
    /\ tx' = [tx EXCEPT !.pc = "read",
                        !.res = _read_txt(TxtPath, RawFile(tx.bytes))]
    /\ UNCHANGED <<cf, rd, gs, w>>

TxtNext == WriteTxt \/ ReadTxt

SpecTxt == TxtInit /\ [][TxtNext]_vars

\* C9: _read_txt returns the text of the first candidate, in the order
\* utf-8, gbk, latin-1, utf-16, that decodes; a file written in any of the
\* four is read back as the text that was written; and the ValueError is
\* raised only when no candidate decodes.
ReadTxtRoundTrip ==
    tx.pc = "read" =>
        /\ tx.res.status = "ok" =>
              \E k \in 1..Len(encodings) :
                  /\ tx.res.used = encodings[k]
                  /\ Decode(encodings[k], tx.bytes) = Decoded(tx.res.text)
                  /\ \A j \in 1..(k - 1) : ~Decode(encodings[j], tx.bytes).ok
        /\ tx.res.status = "ok" /\ tx.res.text = tx.content
        /\ tx.res.status = "error" =>
              \A k \in 1..Len(encodings) : ~Decode(encodings[k], tx.bytes).ok

(***************************************************************************)
(* Harness of read_file: a path, and the file found there (or none)        *)
(***************************************************************************)

MaxNameParts == 3
MaxStreamLen == 2

\* "a"  "."  "txt"  "TXT"  "docx"  "doc"  "pdf"
NameParts ==
    {<<97>>, <<46>>, <<116, 120, 116>>, <<84, 88, 84>>,
     <<100, 111, 99, 120>>, <<100, 111, 99>>, <<112, 100, 102>>}

RECURSIVE NamesUpTo(_)
NamesUpTo(n) ==
    IF n = 0 THEN {<<>>}
    ELSE LET shorter == NamesUpTo(n - 1)
         IN  shorter \cup {s \o p : s \in shorter, p \in NameParts}

ReadPaths == NamesUpTo(MaxNameParts)

\* a docx package: its paragraphs' texts
DocxFile(paragraphs) ==
    [fmt |-> "docx", bytes |-> <<80, 75, 3, 4>>, paragraphs |-> paragraphs,
     has_word |-> FALSE, stream |-> <<>>]

\* a compound document: with or without the WordDocument stream
OleFile(has_word, stream) ==
    [fmt |-> "ole", bytes |-> <<208, 207, 17, 224, 161, 177, 26, 225>>,
     paragraphs |-> <<>>, has_word |-> has_word, stream |-> stream]

ReadFiles ==
    {RawFile(b) : b \in {<<97>>, <<233>>, <<255, 254, 97, 0>>}}
        \cup {DocxFile(ps) : ps \in {<<>>, <<(<<97>>)>>, <<(<<97>>), (<<98, 32>>)>>}}
        \cup {OleFile(FALSE, <<>>)}
        \cup {OleFile(TRUE, b) : b \in SeqsUpTo({97, 0, 32}, MaxStreamLen)}

ReadInit ==
    /\ rd \in {[pc |-> "ready", path |-> p, file |-> f, res |-> ReadOk(<<>>, "none")] :
                  p \in ReadPaths, f \in ReadFiles \cup {NoFile}}
    /\ cf = Idle /\ tx = Idle /\ gs = Idle /\ w = Idle

ReadFile ==
    /\ rd.pc = "ready"
    /\ rd' = [rd EXCEPT !.pc = "done", !.res = read_file(rd.path, rd.file)]
    /\ UNCHANGED <<cf, tx, gs, w>>

ReadNext == ReadFile

SpecRead == ReadInit /\ [][ReadNext]_vars

\* the path ends, whatever the case of its letters, in the extension e and
\* has something before it
HasExt(path, e) ==
    /\ Len(path) > Len(e)
    /\ Lower(SubSeq(path, Len(path) - Len(e) + 1, Len(path))) = e

Recognized(path) ==
    HasExt(path, DotTxt) \/ HasExt(path, DotDocx) \/ HasExt(path, DotDoc)

IsUnsupportedFormat(res) ==
    /\ res.status = "error"
    /\ res.err.type = "ValueError"
    /\ res.err.msg[1].lit = "unsupported file type: "
    /\ res.reader = "none"

IsNotFound(res) ==
    /\ res.status = "error"
    /\ res.err.type = "FileNotFoundError"
    /\ res.reader = "none"

\* C8 as stated: a path with an extension other than .txt, .docx, .doc fails
\* with the unsupported-format error whether or not the file exists.
UnsupportedAlwaysUnsupported ==
    (rd.pc = "done" /\ ~Recognized(rd.path)) => IsUnsupportedFormat(rd.res)

\* C8 (amended): a path that does not exist fails with FileNotFoundError
\* whatever its extension; an existing path with an extension other than
\* .txt, .docx, .doc (case-insensitive) fails with the unsupported-format
\* error and returns no text; an existing path with a recognized extension
\* is handed to exactly the reader of that extension.
ReadFileDispatch ==
    rd.pc = "done" =>
        /\ rd.file = NoFile => IsNotFound(rd.res)
        /\ (rd.file # NoFile /\ ~Recognized(rd.path)) =>
              IsUnsupportedFormat(rd.res) /\ rd.res.text = <<>>
        /\ (rd.file # NoFile /\ HasExt(rd.path, DotTxt)) => rd.res.reader = "_read_txt"
        /\ (rd.file # NoFile /\ HasExt(rd.path, DotDocx)) => rd.res.reader = "_read_docx"
        /\ (rd.file # NoFile /\ HasExt(rd.path, DotDoc)) => rd.res.reader = "_read_doc"

\* an existing file named with an upper-case .TXT went to _read_txt, and
\* (second disjunct) an existing .pdf was refused
ReadFileDispatchWitness ==
    /\ rd.pc = "done"
    /\ rd.file # NoFile
    /\ \/ (rd.path = <<97, 46, 84, 88, 84>> /\ rd.res.reader = "_read_txt"
              /\ rd.res.status = "ok")
       \/ (rd.path = <<97, 46, 112, 100, 102>> /\ IsUnsupportedFormat(rd.res))

(***************************************************************************)
(* TextProcessor: load_model and generate_summary                          *)
(*                                                                         *)
(* The tokenizer and the model are external: what each call of them does   *)
(* (returns, raises, and which text it decodes to) is an oracle the caller *)
(* of these operators chooses.                                             *)
(***************************************************************************)

\* language code -> prompt prefix
LANGUAGE_PREFIXES ==
    ("en" :>
          <<115, 117, 109, 109, 97, 114, 105, 122, 101, 32, 69, 110, 103,
            108, 105, 115, 104, 58, 32>>) @@
    ("zh" :>
          <<24635, 32467, 20013, 25991, 58, 32>>) @@
    ("fr" :>
          <<114, 233, 115, 117, 109, 101, 32, 101, 110, 32, 102, 114, 97,
            110, 231, 97, 105, 115, 58, 32>>) @@
    ("es" :>
          <<114, 101, 115, 117, 109, 105, 114, 32, 101, 110, 32, 101, 115,
            112, 97, 241, 111, 108, 58, 32>>) @@
    ("de" :>
          <<102, 97, 115, 115, 101, 32, 122, 117, 115, 97, 109, 109, 101,
            110, 32, 97, 117, 102, 32, 68, 101, 117, 116, 115, 99, 104, 58,
            32>>) @@
    ("ru" :>
          <<1089, 1076, 1077, 1083, 1072, 1090, 1100, 32, 1088, 1077, 1079,
            1102, 1084, 1077, 32, 1085, 1072, 32, 1088, 1091, 1089, 1089,
            1082, 1086, 1084, 58, 32>>) @@
    ("ja" :>
          <<26085, 26412, 35486, 12391, 35201, 32004, 12375, 12390, 12367,
            12384, 12373, 12356, 58, 32>>) @@
    ("ko" :>
          <<54620, 44397, 50612, 47196, 32, 50836, 50557, 58, 32>>) @@
    ("ar" :>
          <<1604, 1582, 1589, 32, 1576, 1575, 1604, 1593, 1585, 1576, 1610,
            1577, 58, 32>>) @@
    ("it" :>
          <<114, 105, 97, 115, 115, 117, 109, 105, 32, 105, 110, 32, 105,
            116, 97, 108, 105, 97, 110, 111, 58, 32>>)

\* LANGUAGE_PREFIXES.get(language, LANGUAGE_PREFIXES["en"])
PrefixFor(language) ==
    IF language \in DOMAIN LANGUAGE_PREFIXES
    THEN LANGUAGE_PREFIXES[language]
    ELSE LANGUAGE_PREFIXES["en"]

\* TextProcessor.__init__: nothing is loaded
NewProcessor == [tokenizer |-> FALSE, model |-> FALSE, device |-> FALSE]

\* where loading can fail: the tokenizer, the weights, the move to the device
LoadOutcomes == {"ok", "tokenizer", "weights", "device"}

ModelLoadError ==
    [type |-> "RuntimeError",
     msg |-> <<[lit |-> "model loading failed: ", arg |-> <<>>],
               [lit |-> "from_pretrained/to raised", arg |-> <<>>]>>]

\* load_model: returns at once when model and tokenizer are set; otherwise
\* loads the tokenizer, then the weights (loads counts the runs of that
\* step), then picks the device and moves the model there; any exception
\* becomes a RuntimeError and leaves what was assigned before it
load_model(proc, outcome) ==
    IF proc.model /\ proc.tokenizer
    THEN [proc |-> proc, raised |-> FALSE, err |-> NoError, loads |-> 0]
    ELSE CASE outcome = "ok" ->
                [proc |-> [tokenizer |-> TRUE, model |-> TRUE, device |-> TRUE],
                 raised |-> FALSE, err |-> NoError, loads |-> 1]
           [] outcome = "tokenizer" ->
                [proc |-> proc, raised |-> TRUE, err |-> ModelLoadError, loads |-> 0]
           [] outcome = "weights" ->
                [proc |-> [proc EXCEPT !.tokenizer = TRUE],
                 raised |-> TRUE, err |-> ModelLoadError, loads |-> 1]
           [] outcome = "device" ->
                [proc |-> [tokenizer |-> TRUE, model |-> TRUE, device |-> TRUE],
                 raised |-> TRUE, err |-> ModelLoadError, loads |-> 1]

\* if raw_summary.startswith(prefix): raw_summary = raw_summary[len(prefix):].strip()
StripPrefix(raw_summary, summary_prefix) ==
    IF StartsWith(raw_summary, summary_prefix)
    THEN Strip(SubSeq(raw_summary, Len(summary_prefix) + 1, Len(raw_summary)))
    ELSE raw_summary

\* if word_count < 3
NeedsFallback(word_count) == word_count < 3

\* a plausible slip: a fallback of equal length is adopted too
AdoptFallbackOnTie(fallback_word_count, word_count) ==
    fallback_word_count >= word_count

\* if fallback_word_count > word_count
AdoptFallback(fallback_word_count, word_count) ==
    fallback_word_count > word_count

\* what one generate + decode does: raise in generate, raise in decode, or
\* decode to a text
Pass(raise_at, text) == [raise_at |-> raise_at, text |-> text]
PassOps(p) == IF p.raise_at = "generate" THEN <<"generate">> ELSE <<"generate", "decode">>

GenResult(status, text, used_fallback, err, ops, lm) ==
    [status |-> status, text |-> text, used_fallback |-> used_fallback,
     err |-> err, ops |-> ops, proc |-> lm.proc, loads |-> lm.loads]

GenerationError(what) ==
    [type |-> "RuntimeError",
     msg |-> <<[lit |-> "summary generation failed: ", arg |-> <<>>],
               [lit |-> what, arg |-> <<>>]>>]

\* a plausible slip: the handler of the fallback pass raises again, so the
\* outer handler turns the failure into a generation error
FallbackFailedReraise(raw_summary, ops, lm) ==
    GenResult("error", <<>>, FALSE, GenerationError("fallback raised"), ops, lm)

\* except Exception as fallback_error: logged, the primary summary is kept
FallbackFailed(raw_summary, ops, lm) ==
    GenResult("ok", raw_summary, FALSE, NoError, ops, lm)

\* the fallback pass: entered with the stripped primary summary
FallbackPass(raw_summary, word_count, oracle, ops, lm) ==
    LET ops2 == ops \o PassOps(oracle.fallback) IN
    IF oracle.fallback.raise_at # "none"
    THEN FallbackFailed(raw_summary, ops2, lm)
    ELSE LET fallback_summary == oracle.fallback.text
             fallback_word_count == WordCount(fallback_summary)
         IN  IF AdoptFallback(fallback_word_count, word_count)
             THEN GenResult("ok", fallback_summary, TRUE, NoError, ops2, lm)
             ELSE GenResult("ok", raw_summary, FALSE, NoError, ops2, lm)

generate_summary(proc, language, oracle) ==
    LET lm == load_model(proc, oracle.load) IN
    IF lm.raised
    THEN GenResult("error", <<>>, FALSE, lm.err, <<"load_model">>, lm)
    ELSE IF oracle.encode = "raise"
    THEN GenResult("error", <<>>, FALSE, GenerationError("encode raised"),
                   <<"load_model", "encode">>, lm)
    ELSE LET ops == <<"load_model", "encode">> \o PassOps(oracle.primary) IN
         IF oracle.primary.raise_at # "none"
         THEN GenResult("error", <<>>, FALSE, GenerationError("primary raised"),
                        ops, lm)
         ELSE LET raw_summary == StripPrefix(oracle.primary.text, PrefixFor(language))
                  word_count == WordCount(raw_summary)
              IN  IF NeedsFallback(word_count)
                  THEN FallbackPass(raw_summary, word_count, oracle, ops, lm)
                  ELSE GenResult("ok", raw_summary, FALSE, NoError, ops, lm)

(***************************************************************************)
(* Harness of generate_summary: a language, and what the model does        *)
(***************************************************************************)

MaxPieces == 3

\* a known short prefix, a one-word one, a four-word one, an unknown code
SummaryLanguages == {"en", "zh", "de", "xx"}

\* what the model can decode to: up to MaxPieces of the prompt prefix,
\* "a " and "b"
RECURSIVE OutputsUpTo(_, _)
OutputsUpTo(prefix, n) ==
    IF n = 0 THEN {<<>>}
    ELSE LET shorter == OutputsUpTo(prefix, n - 1)
         IN  shorter \cup {s \o p : s \in shorter, p \in {prefix, <<97, 32>>, <<98>>}}

ModelOutputs(language) == OutputsUpTo(PrefixFor(language), MaxPieces)

NoPass == Pass("none", <<>>)

Oracle(load, encode, primary, fallback) ==
    [load |-> load, encode |-> encode, primary |-> primary, fallback |-> fallback]

Passes(language) ==
    {Pass("none", t) : t \in ModelOutputs(language)}
        \cup {Pass("generate", <<>>), Pass("decode", <<>>)}

SummaryState(language, oracle) ==
    [pc |-> "ready", language |-> language, oracle |-> oracle,
     res |-> GenResult("ok", <<>>, FALSE, NoError, <<>>,
                       [proc |-> NewProcessor, loads |-> 0])]

\* every language and every oracle, up to the calls that are never made
SummaryInit ==
    /\ \E l \in SummaryLanguages :
          \/ \E load \in LoadOutcomes \ {"ok"} :
                gs = SummaryState(l, Oracle(load, "ok", NoPass, NoPass))
          \/ gs = SummaryState(l, Oracle("ok", "raise", NoPass, NoPass))
          \/ \E p \in Passes(l), f \in Passes(l) :
                gs = SummaryState(l, Oracle("ok", "ok", p, f))
    /\ cf = Idle /\ rd = Idle /\ tx = Idle /\ w = Idle

\* generate_summary on a fresh TextProcessor
GenerateSummary ==
    /\ gs.pc = "ready"
    /\ gs' = [gs EXCEPT !.pc = "done",
                        !.res = generate_summary(NewProcessor, gs.language, gs.oracle)]
    /\ UNCHANGED <<cf, rd, tx, w>>

SummaryNext == GenerateSummary

SpecSummary == SummaryInit /\ [][SummaryNext]_vars

\* the primary decode without a leading echo of the prompt prefix
PrimaryResult ==
    LET raw == gs.oracle.primary.text
        prefix == PrefixFor(gs.language)
    IN  IF Len(raw) >= Len(prefix) /\ SubSeq(raw, 1, Len(prefix)) = prefix
        THEN Strip(SubSeq(raw, Len(prefix) + 1, Len(raw)))
        ELSE raw

BothPassesRun ==
    /\ gs.pc = "done"
    /\ gs.oracle.load = "ok" /\ gs.oracle.encode = "ok"
    /\ gs.oracle.primary.raise_at = "none"

\* C2: the fallback is adopted (used_fallback, and the fallback decode is
\* returned) exactly when the primary result has fewer than 3 words and the
\* fallback decodes to strictly more words; in every other case (3 or more
\* words, fallback not longer, fallback raised) the primary result is
\* returned and used_fallback is false.
FallbackAdoptedIffLonger ==
    BothPassesRun =>
        LET adopted == /\ WordCount(PrimaryResult) < 3
                       /\ gs.oracle.fallback.raise_at = "none"
                       /\ WordCount(gs.oracle.fallback.text) > WordCount(PrimaryResult)
        IN  /\ gs.res.status = "ok"
            /\ adopted => gs.res.used_fallback /\ gs.res.text = gs.oracle.fallback.text
            /\ ~adopted => ~gs.res.used_fallback /\ gs.res.text = PrimaryResult

\* a two-word primary result and a two-word fallback: the primary is kept
FallbackAdoptedIffLongerWitness ==
    /\ BothPassesRun
    /\ WordCount(PrimaryResult) = 2
    /\ gs.oracle.fallback.raise_at = "none"
    /\ WordCount(gs.oracle.fallback.text) = 2
    /\ gs.oracle.fallback.text # PrimaryResult
    /\ gs.res.text = PrimaryResult

\* C3: the returned summary never contains the prompt prefix of the request.
SummaryHasNoPrefix ==
    (gs.pc = "done" /\ gs.res.status = "ok") =>
        ~Contains(gs.res.text, PrefixFor(gs.language))

\* C10: an exception of the fallback pass never leaves generate_summary:
\* the primary result is returned unchanged; generate_summary fails only
\* when loading, encoding or the primary pass fails, and a generation error
\* only for the last two.
FallbackFailureSwallowed ==
    gs.pc = "done" =>
        /\ (BothPassesRun /\ gs.oracle.fallback.raise_at # "none") =>
              /\ gs.res.status = "ok"
              /\ gs.res.text = PrimaryResult
              /\ ~gs.res.used_fallback
        /\ gs.res.status = "error" =>
              \/ gs.oracle.load # "ok" /\ gs.res.err = ModelLoadError
              \/ /\ gs.oracle.load = "ok"
                 /\ gs.oracle.encode = "raise" \/ gs.oracle.primary.raise_at # "none"
                 /\ gs.res.err.msg[1].lit = "summary generation failed: "

\* the fallback pass ran and raised in its decode
FallbackFailureSwallowedWitness ==
    /\ BothPassesRun
    /\ WordCount(PrimaryResult) = 1
    /\ gs.oracle.fallback.raise_at = "decode"
    /\ gs.res.ops = <<"load_model", "encode", "generate", "decode", "generate", "decode">>
    /\ gs.res.status = "ok"

(***************************************************************************)
(* TextProcessor.process_file                                              *)
(***************************************************************************)

\* raise RuntimeError(f"<lit>{str(error)}")
WrapError(lit, error) ==
    [type |-> "RuntimeError", msg |-> <<[lit |-> lit, arg |-> <<>>]>> \o error.msg]

ProcessResult(status, name, err, cause, stage, ops, gen) ==
    [status |-> status, name |-> name, err |-> err, cause |-> cause,
     stage |-> stage, ops |-> ops, proc |-> gen.proc, loads |-> gen.loads]

NotGenerated(proc) == [proc |-> proc, loads |-> 0]

\* a plausible slip: the model is loaded before the file is read
process_file_load_first(proc, file_path, file, language, oracle) ==
    LET gen == generate_summary(proc, language, oracle)
        read == read_file(file_path, file)
    IN  IF read.status = "error"
        THEN ProcessResult("error", <<>>,
                           WrapError("file processing failed: ", read.err),
                           read.err, "extraction",
                           <<"load_model", "read_file">>, gen)
        ELSE IF gen.status = "error"
        THEN ProcessResult("error", <<>>,
                           WrapError("file processing failed: ", gen.err),
                           gen.err, "generation", <<"read_file">> \o gen.ops, gen)
        ELSE ProcessResult("ok", clean_filename(gen.text), NoError, NoError,
                           "none", <<"read_file">> \o gen.ops \o <<"clean_filename">>,
                           gen)

\* read_file, then generate_summary, then clean_filename; whatever is
\* raised on the way is raised again as a RuntimeError with its message
process_file(proc, file_path, file, language, oracle) ==
    LET read == read_file(file_path, file) IN
    IF read.status = "error"
    THEN ProcessResult("error", <<>>,
                       WrapError("file processing failed: ", read.err),
                       read.err, "extraction", <<"read_file">>, NotGenerated(proc))
    ELSE LET gen == generate_summary(proc, language, oracle) IN
         IF gen.status = "error"
         THEN ProcessResult("error", <<>>,
                            WrapError("file processing failed: ", gen.err),
                            gen.err, "generation", <<"read_file">> \o gen.ops, gen)
         ELSE ProcessResult("ok", clean_filename(gen.text), NoError, NoError,
                            "none", <<"read_file">> \o gen.ops \o <<"clean_filename">>,
                            gen)

(***************************************************************************)
(* FileProcessingThread.run: the batch worker                              *)
(***************************************************************************)

MaxFiles == 2

\* "a.txt"  "b.TXT"  "c.pdf"  "d.doc"  "g.txt"
PathA == <<97, 46, 116, 120, 116>>
PathB == <<98, 46, 84, 88, 84>>
PathC == <<99, 46, 112, 100, 102>>
PathD == <<100, 46, 100, 111, 99>>
PathG == <<103, 46, 116, 120, 116>>

WorkerPaths == {PathA, PathB, PathC, PathD, PathG}

\* the directory at the start: two text files, a pdf, a compound document
\* without its WordDocument stream; g.txt does not exist
InitialFs ==
    (PathA :> RawFile(<<97>>)) @@ (PathB :> RawFile(<<233>>))
        @@ (PathC :> RawFile(<<97>>)) @@ (PathD :> OleFile(FALSE, <<>>))

\* os.path.exists / the file at a path
FsGet(fs, path) == IF path \in DOMAIN fs THEN fs[path] ELSE NoFile

\* os.rename(src, dst)
FsRename(fs, src, dst) ==
    [q \in (DOMAIN fs \ {src}) \cup {dst} |-> IF q = dst THEN fs[src] ELSE fs[q]]

\* what the model does for one file of the batch
WorkerOracles ==
    LET short == Pass("none", <<97>>)
        empty == Pass("none", <<>>)
        long == Pass("none", <<98, 32, 99, 32, 100>>)
        stem == Pass("none", <<98>>)
    IN  {Oracle("weights", "ok", NoPass, NoPass),
         Oracle("ok", "raise", NoPass, NoPass),
         Oracle("ok", "ok", Pass("generate", <<>>), NoPass),
         Oracle("ok", "ok", long, NoPass),
         Oracle("ok", "ok", short, Pass("decode", <<>>)),
         Oracle("ok", "ok", short, long),
         Oracle("ok", "ok", stem, empty),
         Oracle("ok", "ok", empty, empty)}

RECURSIVE BatchesUpTo(_)
BatchesUpTo(n) ==
    IF n = 0 THEN {<<>>}
    ELSE LET shorter == BatchesUpTo(n - 1)
         IN  shorter \cup {Append(b, p) : b \in shorter, p \in WorkerPaths}

NoProcess ==
    ProcessResult("none", <<>>, NoError, NoError, "none", <<>>, NotGenerated(NewProcessor))

Init ==
    /\ w \in {[pc |-> "loop", file_paths |-> b, index |-> 0, success_count |-> 0,
               fs |-> InitialFs, loads |-> 0, renames |-> 0, last |-> NoProcess,
               progress |-> <<>>, completed |-> <<>>] :
                 b \in BatchesUpTo(MaxFiles) \ {<<>>}}
    /\ cf = Idle /\ rd = Idle /\ tx = Idle /\ gs = Idle

FilePath == w.file_paths[w.index + 1]

\* processor = TextProcessor(); new_name = processor.process_file(file_path)
ProcessFile ==
    /\ w.pc = "loop"
    /\ w.index < Len(w.file_paths)
    /\ \E oracle \in WorkerOracles :
          LET res == process_file(NewProcessor, FilePath, FsGet(w.fs, FilePath),
                                  "en", oracle)
          IN  w' = [w EXCEPT !.pc = IF res.status = "ok" THEN "rename" ELSE "except",
                             !.last = res,
                             !.loads = w.loads + res.loads]
    /\ UNCHANGED <<cf, rd, tx, gs>>

\* raise FileExistsError / os.rename raised: control goes to the handler
RenameRaises(err) ==
    [w EXCEPT !.pc = "except",
              !.last.status = "error",
              !.last.stage = "rename",
              !.last.cause = err,
              !.last.err = err]

\* os.rename succeeded: counted, then reported (renames counts the files
\* that os.rename moved)
Renamed(new_name_with_ext) ==
    [w EXCEPT !.pc = "loop",
              !.fs = FsRename(w.fs, FilePath, new_name_with_ext),
              !.renames = w.renames + 1,
              !.success_count = w.success_count + 1,
              !.index = w.index + 1,
              !.progress = Append(w.progress,
                  [progress |-> w.index + 1, filename |-> FilePath,
                   error |-> FALSE, result |-> new_name_with_ext,
                   err |-> NoError])]

\* the new name gets the lower-cased suffix; an existing target raises
\* FileExistsError; otherwise os.rename either raises (the file stays) or
\* moves the file, which is then counted and reported
RenameFile ==
    /\ w.pc = "rename"
    /\ LET new_name_with_ext == w.last.name \o Lower(Suffix(FilePath)) IN
       IF FsGet(w.fs, new_name_with_ext) # NoFile
       THEN w' = RenameRaises(Exc("FileExistsError", "file exists: ",
                                  new_name_with_ext))
       ELSE \/ w' = RenameRaises(Exc("OSError", "rename failed: ", FilePath))
            \/ w' = Renamed(new_name_with_ext)
    /\ UNCHANGED <<cf, rd, tx, gs>>

\* a plausible slip: a failed file is logged but not reported
ReportErrorSilent ==
    /\ w.pc = "except"
    /\ w' = [w EXCEPT !.pc = "loop", !.index = w.index + 1]
    /\ UNCHANGED <<cf, rd, tx, gs>>

\* except Exception as e: the error text is reported for the file
ReportError ==
    /\ w.pc = "except"
    /\ w' = [w EXCEPT !.pc = "loop",
                      !.index = w.index + 1,
                      !.progress = Append(w.progress,
                          [progress |-> w.index + 1, filename |-> FilePath,
                           error |-> TRUE, result |-> <<>>, err |-> w.last.err])]
    /\ UNCHANGED <<cf, rd, tx, gs>>

\* after the loop: processing_completed(success_count, failed_count)
Complete ==
    /\ w.pc = "loop"
    /\ w.index = Len(w.file_paths)
    /\ w' = [w EXCEPT !.pc = "done",
                      !.completed = Append(w.completed,
                          [success_count |-> w.success_count,
                           failed_count |-> Len(w.file_paths) - w.success_count])]
    /\ UNCHANGED <<cf, rd, tx, gs>>

Next == ProcessFile \/ RenameFile \/ ReportError \/ Complete

Spec == Init /\ [][Next]_vars

\* C1: over a whole run the weights are loaded at most once.
ModelLoadedAtMostOnce == w.loads <= 1

IsModelOp(op) == op \in {"load_model", "encode", "generate", "decode"}

\* C6: when extraction fails in process_file (missing file, unsupported
\* extension, undecodable text, compound document without its text
\* stream), process_file fails and that invocation performed no model
\* operation: no load, encode, generate or decode.
ExtractionFails(file_path, file) ==
    \/ file = NoFile
    \/ ~Recognized(file_path)
    \/ HasExt(file_path, DotDoc) /\ ~(file.fmt = "ole" /\ file.has_word)
    \/ HasExt(file_path, DotDocx) /\ file.fmt # "docx"
    \/ HasExt(file_path, DotTxt)
          /\ \A k \in 1..Len(encodings) : ~Decode(encodings[k], file.bytes).ok

ExtractionFailurePreventsModel ==
    (w.pc = "except" /\ ExtractionFails(FilePath, FsGet(w.fs, FilePath))) =>
        /\ w.last.status = "error"
        /\ w.last.stage = "extraction"
        /\ \A i \in 1..Len(w.last.ops) : ~IsModelOp(w.last.ops[i])
        /\ w.last.loads = 0
        /\ ~w.last.proc.model /\ ~w.last.proc.tokenizer

\* the second file of a batch is a compound document without its stream,
\* after a first file that did load the model
ExtractionFailurePreventsModelWitness ==
    /\ w.pc = "except"
    /\ w.index = 1
    /\ w.loads = 1
    /\ w.last.cause = Exc("ValueError", "file is not a valid Word document", <<>>)

\* does the message of an error mention the path
MentionsPath(err, path) ==
    \E i \in 1..Len(err.msg) : err.msg[i].arg # <<>> /\ Contains(err.msg[i].arg, path)

\* C7: a failure of process_file is reported with the error kind of the
\* stage that failed and with the path of the file.
FailureKeepsKindAndPath ==
    (w.pc = "except" /\ w.last.stage \in {"extraction", "generation"}) =>
        /\ w.last.err.type = w.last.cause.type
        /\ MentionsPath(w.last.err, FilePath)

\* ------------------------------------------------------------------
\* model-load failures inside a batch

\* the error run reports for a file whose load_model raised
LoadFailureReport == WrapError("file processing failed: ", ModelLoadError)

IsLoadFailure(entry) == entry.error /\ entry.err = LoadFailureReport

\* C11: once load_model has failed on one file of a batch, no later file of
\* that batch is processed (no extraction, load attempt or rename follows
\* the report of the failure), while a batch without a load failure is
\* worked through to its last file.
LoadFailureEndsBatch ==
    /\ \A i \in 1..Len(w.progress) :
          IsLoadFailure(w.progress[i])
              => /\ i = Len(w.progress)
                 /\ w.pc \in {"loop", "done"}
                 /\ w.last.err = LoadFailureReport
    /\ (w.pc = "done" /\ \A i \in 1..Len(w.progress) : ~IsLoadFailure(w.progress[i]))
          => Len(w.progress) = Len(w.file_paths)


\* ------------------------------------------------------------------
\* progress and completion signals of a batch

\* C12: run goes on past every per-file failure: each file handled so far
\* has exactly one progress_updated emission, in list order with progress
\* values 1, 2, ..; until the last file is handled the worker can always
\* take a further step and processing_completed has not been emitted; after
\* the last file it is emitted exactly once, with success_count +
\* failed_count equal to the number of files and success_count equal to the
\* number of files that os.rename moved.
ProgressOncePerFile ==
    /\ Len(w.progress) = w.index
    /\ \A i \in 1..Len(w.progress) :
          /\ w.progress[i].progress = i
          /\ w.progress[i].filename = w.file_paths[i]
    /\ w.pc # "done" => (w.completed = <<>> /\ ENABLED Next)
    /\ w.pc = "done" =>
          /\ Len(w.progress) = Len(w.file_paths)
          /\ Len(w.completed) = 1
          /\ w.completed[1].success_count + w.completed[1].failed_count
                = Len(w.file_paths)
          /\ w.completed[1].success_count = w.renames

\* a finished batch whose first file failed and whose second was renamed
ProgressOncePerFileWitness ==
    /\ w.pc = "done"
    /\ Len(w.file_paths) = 2
    /\ w.progress[1].error
    /\ ~w.progress[2].error
    /\ w.completed = <<[success_count |-> 1, failed_count |-> 1]>>

\* ------------------------------------------------------------------
\* collisions of the new name

\* C13: the worker never renames a file onto an existing path: when the
\* target name, the sanitized summary plus the file's original extension,
\* exists at the time of the check (another file's name, the name an
\* earlier file of the batch was given, or the file's own name), the file
\* keeps its name, is reported as an error and is not counted.
ExistingTargetKeepsFile ==
    [][LET target == w.last.name \o Suffix(FilePath) IN
       /\ (w.pc = "rename" /\ FsGet(w.fs, target) # NoFile)
             => /\ w'.pc = "except"
                /\ w'.fs = w.fs
                /\ w'.success_count = w.success_count
       /\ (w.pc = "except" /\ w.last.stage = "rename")
             => /\ w'.progress[Len(w'.progress)].error
                /\ w'.fs = w.fs
                /\ w'.success_count = w.success_count
       /\ Cardinality(DOMAIN w'.fs) = Cardinality(DOMAIN w.fs)]_vars

====
